---- MODULE Spec2Model ----
(***************************************************************************)
(* Model of ClaudeContainerLauncher (launch-claude-container-standalone.py) *)
(* : one invocation of run(), from parsed arguments to process exit, with  *)
(* the git repository, the script directory and the container runtime as   *)
(* the environment the external commands act on.                           *)
(***************************************************************************)
EXTENDS Integers, Sequences, FiniteSets, TLC

VARIABLES
    args,              \* argparse.Namespace: the flags run() reads
    pc,                \* position of the process inside run()
    visited,           \* the positions run() has passed, in order
    worktree_path,     \* self.worktree_path
    worktree_created,  \* self.worktree_created
    cleanup_worktree,  \* self.cleanup_worktree
    mount_path,        \* local mount_path of run()
    proc_cwd,          \* os.getcwd() of the process
    has_changes,       \* local has_changes of handle_worktree_post_processing
    error,             \* exception in flight while run() unwinds
    exit_code,         \* exit code of the process, once it has ended
    dockerfile_exists, \* self.dockerfile.exists()
    dirs,              \* directories existing on disk (cwd always exists)
    worktrees,         \* linked working trees registered in the repository
    branches,          \* branch names existing in the repository
    changes,           \* per directory: kinds of modification the session left
    artifacts,         \* configuration files present in script_dir
    container_exists,  \* a container named container_name exists
    image_exists,      \* an image tagged image_name exists
    local_commits,     \* commits made by this run that the repository holds
    cmds,              \* external commands issued so far, with their outcome
    teardown_runs,     \* executions of cleanup_worktree_if_needed
    result             \* outcome of reconciliation: committed, pushed, via

vars == <<args, pc, visited, worktree_path, worktree_created, cleanup_worktree,
          mount_path, proc_cwd, has_changes, error, exit_code,
          dockerfile_exists, dirs, worktrees, branches, changes, artifacts,
          container_exists, image_exists, local_commits, cmds, teardown_runs,
          result>>

----------------------------------------------------------------------------
(* Paths and names *)

NoPath == "None"
Cwd == "cwd"                    \* self.cwd = Path.cwd()
ClaudeWt == "cwd/claude_wt"     \* self.cwd / "claude_wt"
WtTemp == "cwd/wt_temp"         \* target of `git worktree add ... wt_temp/`
ExtPath == "ext"                \* a path given with --worktree-path
WtBranch == "claude_wt"         \* branch made by `git worktree add -b claude_wt`

Paths == {Cwd, ClaudeWt, WtTemp, ExtPath}
ChangeKinds == {"unstaged", "staged", "untracked"}
CredentialsFile == ".credentials.json"
ClaudeJson == ".claude.json"

Exists(p) == p = Cwd \/ p \in dirs

\* `git worktree list --porcelain` names the main working tree and every
\* linked one; the code tests str(worktree_path) in result.stdout
Listed(p) == p = Cwd \/ p \in worktrees

\* an external command: its name, its main argument, its further arguments
\* as a list of words, and whether it exited with status 0
CmdWith(c, a, x, ok) == [cmd |-> c, arg |-> a, extra |-> x, ok |-> ok]

Cmd(c, a, ok) == CmdWith(c, a, <<>>, ok)

Unset == "unset"                \* an option that was not given (None)
SourceRefs == {Unset, "feature"}            \* --worktree-branch
Messages == {Unset, "fix the tests"}        \* -m/--message
PermissionModes == {Unset, "plan"}          \* --permission-mode

----------------------------------------------------------------------------
(* State after construction and argument parsing *)

ArgsSpace ==
    [keep_worktree : BOOLEAN,
     no_worktree   : BOOLEAN,
     no_cache      : BOOLEAN,
     worktree_path : {NoPath, ExtPath},
     worktree_branch : SourceRefs,
     message         : Messages,
     permission_mode : PermissionModes]

NoResult == [committed |-> FALSE, pushed |-> FALSE, via |-> "none"]

Init ==
    /\ args \in ArgsSpace
    /\ pc = "setup"
    /\ visited = <<"setup">>
    /\ worktree_path = NoPath
    /\ worktree_created = FALSE
    /\ cleanup_worktree = TRUE
    /\ mount_path = Cwd
    /\ proc_cwd = Cwd
    /\ has_changes = "unset"
    /\ error = "none"
    /\ exit_code = -1
    /\ dockerfile_exists = TRUE
    /\ dirs \in SUBSET {ClaudeWt, WtTemp, ExtPath}
    /\ worktrees \in SUBSET dirs
    /\ branches \in SUBSET {WtBranch}
    /\ changes = [p \in Paths |-> {}]
    /\ artifacts = {}
    /\ container_exists \in BOOLEAN
    /\ image_exists \in BOOLEAN
    /\ local_commits = 0
    /\ cmds = <<>>
    /\ teardown_runs = 0
    /\ result = NoResult

Goto(l) ==
    /\ pc' = l
    /\ visited' = Append(visited, l)

\* sys.exit(1) or an uncaught exception outside the try block of run()
ExitNow(code) ==
    /\ pc' = "done"
    /\ visited' = Append(visited, "done")
    /\ exit_code' = code

\* a step inside the try block of run() that returns normally
Continue(l) ==
    /\ Goto(l)
    /\ UNCHANGED <<error, exit_code>>

\* variant of RaiseInTry: the exception ends the process without the finally clause
RaiseInTry_NoFinally(exc) ==
    /\ error' = exc
    /\ ExitNow(1)

\* an exception raised inside the try block of run(): the finally clause runs
RaiseInTry(exc) ==
    /\ error' = exc
    /\ Goto("teardown")
    /\ UNCHANGED exit_code

----------------------------------------------------------------------------
(* run(): dockerfile check and cleanup behaviour *)

Setup ==
    /\ pc = "setup"
    /\ IF ~dockerfile_exists
       THEN /\ ExitNow(1)
            /\ UNCHANGED cleanup_worktree
       ELSE /\ cleanup_worktree' = IF args.keep_worktree THEN FALSE ELSE cleanup_worktree
            /\ Goto("acquire")
            /\ UNCHANGED exit_code
    /\ UNCHANGED error
    /\ UNCHANGED <<args, image_exists, local_commits, worktree_path, worktree_created, mount_path, proc_cwd,
                   has_changes, dockerfile_exists, dirs, worktrees,
                   branches, changes, artifacts, container_exists, cmds,
                   teardown_runs, result>>

----------------------------------------------------------------------------
(* run(): setup of the working directory *)

\* --no-worktree: the current directory is mounted
UseCurrentDirectory ==
    /\ pc = "acquire"
    /\ args.no_worktree
    /\ Goto("prepare_config")
    /\ UNCHANGED <<args, image_exists, local_commits, worktree_path, worktree_created, cleanup_worktree,
                   mount_path, proc_cwd, has_changes, error, exit_code,
                   dockerfile_exists, dirs, worktrees, branches, changes,
                   artifacts, container_exists, cmds, teardown_runs, result>>

\* --worktree-path names a path that exists
\* variant of UseExistingWorktree: the path is honoured before --no-worktree
UseExistingWorktree_IgnoresBypass ==
    /\ pc = "acquire"
    /\ args.worktree_path # NoPath /\ Exists(args.worktree_path)
    /\ worktree_path' = args.worktree_path
    /\ mount_path' = args.worktree_path
    /\ cleanup_worktree' = FALSE
    /\ Goto("prepare_config")
    /\ UNCHANGED <<args, image_exists, local_commits, worktree_created, proc_cwd, has_changes, error,
                   exit_code, dockerfile_exists, dirs, worktrees, branches,
                   changes, artifacts, container_exists, cmds, teardown_runs,
                   result>>

UseExistingWorktree ==
    /\ pc = "acquire"
    /\ ~args.no_worktree
    /\ args.worktree_path # NoPath /\ Exists(args.worktree_path)
    /\ worktree_path' = args.worktree_path
    /\ mount_path' = args.worktree_path
    /\ cleanup_worktree' = FALSE
    /\ Goto("prepare_config")
    /\ UNCHANGED <<args, image_exists, local_commits, worktree_created, proc_cwd, has_changes, error,
                   exit_code, dockerfile_exists, dirs, worktrees, branches,
                   changes, artifacts, container_exists, cmds, teardown_runs,
                   result>>

\* git refuses `worktree add -b claude_wt wt_temp/` when the branch exists or
\* the target directory is taken
CanAddWorktree ==
    /\ WtBranch \notin branches
    /\ WtTemp \notin dirs
    /\ WtTemp \notin worktrees

\* variant of CreatedAfterAdd: the flag is set before the command is known to succeed
CreatedAfterAdd_Always(ok) == TRUE

\* self.worktree_created after the worktree-add command returned
CreatedAfterAdd(ok) == ok

\* the argument run() passes: args.worktree_branch or "HEAD"
RequestedRef(worktree_branch) ==
    IF worktree_branch = Unset THEN "HEAD" ELSE worktree_branch

\* the words of `git worktree add` besides the target directory:
\* ["-b", "claude_wt"]; branch_or_commit is only printed, never passed
WorktreeAddArgs(branch_or_commit) == <<"-b", WtBranch>>

\* the path create_worktree returns
CreateWorktreeReturn(ok) == IF ok THEN ClaudeWt ELSE Cwd

\* create_worktree(args.worktree_branch or "HEAD")
CreateWorktree ==
    /\ pc = "acquire"
    /\ ~args.no_worktree
    /\ ~(args.worktree_path # NoPath /\ Exists(args.worktree_path))
    /\ \E repo \in (IF worktrees = {} /\ branches = {} THEN BOOLEAN ELSE {TRUE}) :
         IF ~repo
         THEN \* is_git_repo() is False: sys.exit(1), outside the try block
              /\ cmds' = Append(cmds, Cmd("git rev-parse", "", FALSE))
              /\ ExitNow(1)
              /\ UNCHANGED <<worktree_path, worktree_created, mount_path,
                             dirs, worktrees, branches>>
         ELSE \E ok \in BOOLEAN :
              /\ ok => CanAddWorktree
              /\ cmds' = cmds \o <<Cmd("git rev-parse", "", TRUE),
                                   CmdWith("git worktree add", WtTemp,
                                       WorktreeAddArgs(RequestedRef(args.worktree_branch)),
                                       ok)>>
              /\ worktree_created' = CreatedAfterAdd(ok)
              /\ worktree_path' = CreateWorktreeReturn(ok)
              /\ mount_path' = CreateWorktreeReturn(ok)
              /\ dirs' = IF ok THEN dirs \cup {WtTemp} ELSE dirs
              /\ worktrees' = IF ok THEN worktrees \cup {WtTemp} ELSE worktrees
              /\ branches' = IF ok THEN branches \cup {WtBranch} ELSE branches
              /\ Goto("prepare_config")
              /\ UNCHANGED exit_code
    /\ UNCHANGED <<args, image_exists, local_commits, cleanup_worktree, proc_cwd, has_changes, error,
                   dockerfile_exists, changes, artifacts, container_exists,
                   teardown_runs, result>>

----------------------------------------------------------------------------
(* prepare_claude_config *)

ConfigOutcomes == {"no_credentials", "no_profile", "bad_profile", "ok"}

\* files prepare_claude_config has written when it ends with outcome o
ConfigWritten(o) ==
    CASE o = "no_credentials" -> {}
      [] o = "no_profile"     -> {CredentialsFile}
      [] o = "bad_profile"    -> {CredentialsFile}
      [] o = "ok"             -> {CredentialsFile, ClaudeJson}

PrepareClaudeConfig ==
    /\ pc = "prepare_config"
    /\ \E o \in ConfigOutcomes :
         /\ artifacts' = artifacts \cup ConfigWritten(o)
         /\ IF o = "ok" THEN Continue("should_build") ELSE RaiseInTry("SystemExit")
    /\ UNCHANGED <<args, image_exists, local_commits, worktree_path, worktree_created, cleanup_worktree,
                   mount_path, proc_cwd, has_changes, dockerfile_exists, dirs,
                   worktrees, branches, changes, container_exists, cmds,
                   teardown_runs, result>>

----------------------------------------------------------------------------
(* should_build_image, build_image, cleanup_temp_files *)

\* the commands should_build_image issues and its answer
ImageQueryCmds(no_cache, exists, inspect_ok) ==
    IF no_cache THEN <<>>
    ELSE IF ~exists THEN <<Cmd("podman image exists", "", FALSE)>>
    ELSE <<Cmd("podman image exists", "", TRUE),
           Cmd("podman image inspect", "", inspect_ok)>>

\* variant of ShouldBuild: the forced-rebuild flag is not consulted
ShouldBuild_FlagIgnored(no_cache, exists, inspect_ok) ==
    IF ~exists THEN TRUE
    ELSE IF inspect_ok THEN dockerfile_exists
    ELSE FALSE

\* the answer of should_build_image
ShouldBuild(no_cache, exists, inspect_ok) ==
    IF no_cache THEN TRUE
    ELSE IF ~exists THEN TRUE
    ELSE IF inspect_ok THEN dockerfile_exists
    ELSE FALSE

ShouldBuildImage ==
    /\ pc = "should_build"
    /\ \E inspect_ok \in BOOLEAN :
         /\ cmds' = cmds \o ImageQueryCmds(args.no_cache, image_exists, inspect_ok)
         /\ IF ShouldBuild(args.no_cache, image_exists, inspect_ok)
            THEN Continue("build")
            ELSE Continue("cleanup_temp")
    /\ UNCHANGED <<args, image_exists, local_commits, worktree_path, worktree_created, cleanup_worktree,
                   mount_path, proc_cwd, has_changes, dockerfile_exists, dirs,
                   worktrees, branches, changes, artifacts, container_exists,
                   teardown_runs, result>>

\* variant of BuildRaises: the build command is run without check=True
BuildRaises_Unchecked(ok) == FALSE

\* subprocess.run(build_args, check=True)
BuildRaises(ok) == ~ok

\* variant of BuildCmds: a failed build is attempted a second time
BuildCmds_Retry(no_cache, ok) ==
    LET flag == IF no_cache THEN "--no-cache" ELSE ""
    IN  IF ok THEN <<Cmd("podman build", flag, TRUE)>>
        ELSE <<Cmd("podman build", flag, FALSE), Cmd("podman build", flag, FALSE)>>

\* the one `podman build` of build_image
BuildCmds(no_cache, ok) ==
    <<Cmd("podman build", IF no_cache THEN "--no-cache" ELSE "", ok)>>

BuildImage ==
    /\ pc = "build"
    /\ \E ok \in BOOLEAN :
         /\ cmds' = cmds \o BuildCmds(args.no_cache, ok)
         /\ image_exists' = (image_exists \/ ok)
         /\ IF BuildRaises(ok)
            THEN RaiseInTry("CalledProcessError")
            ELSE Continue("cleanup_temp")
    /\ UNCHANGED <<args, local_commits, worktree_path, worktree_created, cleanup_worktree,
                   mount_path, proc_cwd, has_changes, dockerfile_exists, dirs,
                   worktrees, branches, changes, artifacts, container_exists,
                   teardown_runs, result>>

\* variant of TempFiles: only the profile copy is deleted
TempFiles_ProfileOnly == {ClaudeJson}

\* the files cleanup_temp_files unlinks from script_dir
TempFiles == {CredentialsFile, ClaudeJson}

CleanupTempFiles ==
    /\ pc = "cleanup_temp"
    /\ artifacts' = artifacts \ TempFiles
    /\ Continue("stop_existing")
    /\ UNCHANGED <<args, image_exists, local_commits, worktree_path, worktree_created, cleanup_worktree,
                   mount_path, proc_cwd, has_changes, dockerfile_exists, dirs,
                   worktrees, branches, changes, container_exists, cmds,
                   teardown_runs, result>>

----------------------------------------------------------------------------
(* stop_existing_container, run_container *)

\* variant of StopCmds: the container is removed before it is stopped
StopCmds_RemoveFirst(exists, stop_ok, rm_ok) ==
    IF exists
    THEN <<Cmd("podman container exists", "", TRUE),
           Cmd("podman rm", "", rm_ok),
           Cmd("podman stop", "", stop_ok)>>
    ELSE <<Cmd("podman container exists", "", FALSE)>>

\* variant of StopCmds: stop and remove are issued without the existence query
\* being consulted
StopCmds_Unconditional(exists, stop_ok, rm_ok) ==
    <<Cmd("podman container exists", "", exists),
      Cmd("podman stop", "", stop_ok),
      Cmd("podman rm", "", rm_ok)>>

\* the commands stop_existing_container issues
StopCmds(exists, stop_ok, rm_ok) ==
    IF exists
    THEN <<Cmd("podman container exists", "", TRUE),
           Cmd("podman stop", "", stop_ok),
           Cmd("podman rm", "", rm_ok)>>
    ELSE <<Cmd("podman container exists", "", FALSE)>>

StopExistingContainer ==
    /\ pc = "stop_existing"
    /\ \E stop_ok \in BOOLEAN, rm_ok \in BOOLEAN :
         LET issued == StopCmds(container_exists, stop_ok, rm_ok) IN
         /\ cmds' = cmds \o issued
         /\ container_exists' =
                IF \E i \in DOMAIN issued : issued[i].cmd = "podman rm"
                THEN container_exists /\ ~rm_ok
                ELSE container_exists
    /\ Continue("run_container")
    /\ UNCHANGED <<args, image_exists, local_commits, worktree_path, worktree_created, cleanup_worktree,
                   mount_path, proc_cwd, has_changes, dockerfile_exists, dirs,
                   worktrees, branches, changes, artifacts, teardown_runs,
                   result>>

\* `podman run --name <container_name> --volume <mount_path>:...` starts a
\* session only if the name is free and the host directory exists; the run
\* command has no --rm, so the container outlives the session
\* variant of RunRaises: the session is run with check=True
RunRaises_Checked(ok) == ~ok

\* subprocess.run(run_args): the exit status of the session is not checked
RunRaises(ok) == FALSE

\* variant of ClaudeCmd: the chosen permission mode is not passed on
ClaudeCmd_ModeIgnored(message, permission_mode) ==
    IF message = Unset THEN <<>>
    ELSE <<"bash", "-c", "claude", "--dangerously-skip-permissions",
           "-p", message, "--output-format", "stream-json", "--verbose">>

\* the words run_container appends after the image name: nothing without a
\* message, otherwise bash -c with the claude command line
ClaudeCmd(message, permission_mode) ==
    IF message = Unset THEN <<>>
    ELSE <<"bash", "-c", "claude">>
         \o (IF permission_mode # Unset
             THEN <<"--permission-mode", permission_mode>>
             ELSE <<"--dangerously-skip-permissions">>)
         \o <<"-p", message, "--output-format", "stream-json", "--verbose">>

RunContainer ==
    /\ pc = "run_container"
    /\ LET started == Exists(mount_path) /\ ~container_exists /\ image_exists IN
       \E ok \in BOOLEAN, ch \in SUBSET ChangeKinds :
         /\ ~started => (~ok /\ ch = {})
         /\ cmds' = Append(cmds, CmdWith("podman run", mount_path,
                                         ClaudeCmd(args.message, args.permission_mode),
                                         ok))
         /\ changes' = IF started THEN [changes EXCEPT ![mount_path] = ch]
                       ELSE changes
         /\ container_exists' = (container_exists \/ started)
         /\ IF RunRaises(ok)
            THEN RaiseInTry("CalledProcessError")
            ELSE Continue("post_processing")
    /\ UNCHANGED <<args, image_exists, local_commits, worktree_path, worktree_created, cleanup_worktree,
                   mount_path, proc_cwd, has_changes, dockerfile_exists, dirs,
                   worktrees, branches, artifacts, teardown_runs, result>>

----------------------------------------------------------------------------
(* handle_worktree_post_processing *)

\* variant of ShouldPostProcess: the ownership flag is not consulted
ShouldPostProcess_NoOwnership ==
    /\ worktree_path # NoPath
    /\ Exists(worktree_path)

\* the guard of handle_worktree_post_processing
ShouldPostProcess ==
    /\ worktree_created
    /\ worktree_path # NoPath
    /\ Exists(worktree_path)

\* variant of HasChanges: the untracked-file listing is not consulted
HasChanges_NoUntracked(ch) ==
    \/ "unstaged" \in ch
    \/ "staged" \in ch

\* variant of HasChanges: the flag starts out True
HasChanges_Always(ch) == TRUE

\* has_changes after the three queries, for the modifications ch present
HasChanges(ch) ==
    \/ "unstaged" \in ch
    \/ "staged" \in ch
    \/ "untracked" \in ch

\* `git diff --quiet` exits non-zero when there is a difference; the
\* untracked-file listing is judged by its output
DetectCmds(ch) ==
    <<Cmd("git diff --quiet", "", "unstaged" \notin ch),
      Cmd("git diff --cached --quiet", "", "staged" \notin ch),
      Cmd("git ls-files --others", "", TRUE)>>

\* variant of PushCmds: the upstream-setting push follows the plain push unconditionally
PushCmds_NoFallbackGuard(push_ok, pushu_ok) ==
    <<Cmd("git push", "origin", push_ok),
      Cmd("git push --set-upstream", "origin", pushu_ok)>>

\* the push with its upstream-setting fallback
PushCmds(push_ok, pushu_ok) ==
    IF push_ok
    THEN <<Cmd("git push", "origin", TRUE)>>
    ELSE <<Cmd("git push", "origin", FALSE),
           Cmd("git push --set-upstream", "origin", pushu_ok)>>

\* add, commit, branch query (each check=True) and push
CommitCmds(add_ok, commit_ok, branch_ok, push_ok, pushu_ok) ==
    IF ~add_ok THEN <<Cmd("git add -A", "", FALSE)>>
    ELSE IF ~commit_ok THEN <<Cmd("git add -A", "", TRUE),
                              Cmd("git commit", "", FALSE)>>
    ELSE IF ~branch_ok THEN <<Cmd("git add -A", "", TRUE),
                              Cmd("git commit", "", TRUE),
                              Cmd("git branch --show-current", "", FALSE)>>
    ELSE <<Cmd("git add -A", "", TRUE),
           Cmd("git commit", "", TRUE),
           Cmd("git branch --show-current", "", TRUE)>>
         \o PushCmds(push_ok, pushu_ok)

\* variant of ReconcileRaises: the commit is run without check=True
ReconcileRaises_CommitUnchecked(add_ok, commit_ok, branch_ok) ==
    ~(add_ok /\ (commit_ok => branch_ok))

\* CalledProcessError leaves the handler when add, commit or branch query fail
ReconcileRaises(add_ok, commit_ok, branch_ok) ==
    ~(add_ok /\ commit_ok /\ branch_ok)

ReconcileResult(add_ok, commit_ok, branch_ok, push_ok, pushu_ok) ==
    [committed |-> add_ok /\ commit_ok,
     pushed    |-> add_ok /\ commit_ok /\ branch_ok /\ (push_ok \/ pushu_ok),
     via       |-> IF ~(add_ok /\ commit_ok /\ branch_ok) THEN "none"
                   ELSE IF push_ok THEN "plain"
                   ELSE IF pushu_ok THEN "upstream"
                   ELSE "none"]

\* variant of PushRaises: the failure of the fallback push is not caught
PushRaises_Uncaught(push_ok, pushu_ok) == ~push_ok /\ ~pushu_ok

\* both push attempts sit in try/except CalledProcessError: a failed push
\* only prints a warning
PushRaises(push_ok, pushu_ok) == FALSE

\* commits `git commit` adds to the branch checked out in the worktree
CommitsMade(add_ok, commit_ok) == IF add_ok /\ commit_ok THEN 1 ELSE 0

\* variant of CwdAfterPostProcessing: the handler stays in the worktree
CwdAfterPostProcessing_NoRestore(original_cwd, wt) == wt

\* the working directory after the finally clause of the handler
CwdAfterPostProcessing(original_cwd, wt) == original_cwd

HandleWorktreePostProcessing ==
    /\ pc = "post_processing"
    /\ IF ~ShouldPostProcess
       THEN /\ Continue("teardown")
            /\ UNCHANGED <<proc_cwd, has_changes, cmds, result, local_commits>>
       ELSE LET ch == changes[worktree_path] IN
            /\ proc_cwd' = CwdAfterPostProcessing(proc_cwd, worktree_path)
            /\ IF ~HasChanges(ch)
               THEN /\ has_changes' = "False"
                    /\ cmds' = cmds \o DetectCmds(ch)
                    /\ Continue("teardown")
                    /\ UNCHANGED <<result, local_commits>>
               ELSE \E add_ok \in BOOLEAN, commit_ok \in BOOLEAN,
                       branch_ok \in BOOLEAN, push_ok \in BOOLEAN,
                       pushu_ok \in BOOLEAN :
                    /\ has_changes' = "True"
                    /\ cmds' = cmds \o DetectCmds(ch)
                                    \o CommitCmds(add_ok, commit_ok, branch_ok,
                                                  push_ok, pushu_ok)
                    /\ result' = ReconcileResult(add_ok, commit_ok, branch_ok,
                                                 push_ok, pushu_ok)
                    /\ local_commits' = local_commits + CommitsMade(add_ok, commit_ok)
                    /\ IF \/ ReconcileRaises(add_ok, commit_ok, branch_ok)
                          \/ PushRaises(push_ok, pushu_ok)
                       THEN RaiseInTry("CalledProcessError")
                       ELSE Continue("teardown")
    /\ UNCHANGED <<args, image_exists, worktree_path, worktree_created, cleanup_worktree,
                   mount_path, dockerfile_exists, dirs, worktrees, branches,
                   changes, artifacts, container_exists, teardown_runs>>

----------------------------------------------------------------------------
(* finally: cleanup_worktree_if_needed, then the process ends *)

\* variant of ShouldCleanupWorktree: self.cleanup_worktree is not consulted
ShouldCleanupWorktree_IgnoreFlag ==
    /\ worktree_path # NoPath
    /\ worktree_created

\* the guard of cleanup_worktree_if_needed
ShouldCleanupWorktree ==
    /\ worktree_path # NoPath
    /\ cleanup_worktree
    /\ worktree_created

\* exit code of the process: 1 for SystemExit(1) and for an uncaught exception
ExitCodeFor(err) == IF err = "none" THEN 0 ELSE 1

\* variant of CleanupRaises: the list command is run with check=True
CleanupRaises_ListChecked(list_ok, rm_ok) == ~list_ok

\* cleanup_worktree_if_needed runs both commands without check=True, so a
\* non-zero exit raises nothing
CleanupRaises(list_ok, rm_ok) == FALSE

\* the path appears in the output of a successful `git worktree list`
ListedBy(list_ok) == list_ok /\ Listed(worktree_path)

\* `git worktree remove --force` was run and removed the registered tree
WorktreeRemoved(list_ok, rm_ok) ==
    ListedBy(list_ok) /\ rm_ok /\ worktree_path \in worktrees

CleanupWorktreeIfNeeded ==
    /\ pc = "teardown"
    /\ teardown_runs' = teardown_runs + 1
    /\ IF ~ShouldCleanupWorktree
       THEN /\ UNCHANGED <<cmds, dirs, worktrees, error>>
            /\ ExitNow(ExitCodeFor(error))
       ELSE \E list_ok \in BOOLEAN, rm_ok \in BOOLEAN :
            LET listed  == ListedBy(list_ok)
                removed == WorktreeRemoved(list_ok, rm_ok)
                raised  == CleanupRaises(list_ok, rm_ok)
            IN  /\ error' = IF raised THEN "CalledProcessError" ELSE error
                /\ ExitNow(IF raised THEN 1 ELSE ExitCodeFor(error))
                /\ cmds' = cmds
                       \o <<Cmd("git worktree list", "", list_ok)>>
                       \o (IF listed
                           THEN <<Cmd("git worktree remove", worktree_path, removed)>>
                           ELSE <<>>)
                /\ dirs' = IF removed THEN dirs \ {worktree_path} ELSE dirs
                /\ worktrees' = IF removed THEN worktrees \ {worktree_path}
                                ELSE worktrees
    /\ UNCHANGED <<args, image_exists, local_commits, worktree_path, worktree_created, cleanup_worktree,
                   mount_path, proc_cwd, has_changes, dockerfile_exists,
                   branches, changes, artifacts, container_exists, result>>

----------------------------------------------------------------------------

Next ==
    \/ Setup
    \/ UseCurrentDirectory
    \/ UseExistingWorktree
    \/ CreateWorktree
    \/ PrepareClaudeConfig
    \/ ShouldBuildImage
    \/ BuildImage
    \/ CleanupTempFiles
    \/ StopExistingContainer
    \/ RunContainer
    \/ HandleWorktreePostProcessing
    \/ CleanupWorktreeIfNeeded

Spec == Init /\ [][Next]_vars

----------------------------------------------------------------------------
(* Vocabulary of the properties *)

Issued(c) == \E i \in DOMAIN cmds : cmds[i].cmd = c
Succeeded(c) == \E i \in DOMAIN cmds : cmds[i].cmd = c /\ cmds[i].ok
Failed(c) == \E i \in DOMAIN cmds : cmds[i].cmd = c /\ ~cmds[i].ok
Count(c) == Cardinality({i \in DOMAIN cmds : cmds[i].cmd = c})
Before(a, b) ==
    \A i, j \in DOMAIN cmds : cmds[i].cmd = a /\ cmds[j].cmd = b => i < j

Visited(l) == \E i \in DOMAIN visited : visited[i] = l
EnteredTry == \E i \in DOMAIN visited : visited[i] = "prepare_config"
PastImageDecision == Visited("should_build") /\ pc # "should_build"
SuppliedExisting == args.worktree_path # NoPath /\ Exists(args.worktree_path)

DetectCmdNames ==
    {"git diff --quiet", "git diff --cached --quiet", "git ls-files --others"}
CommitPushCmdNames ==
    {"git add -A", "git commit", "git push", "git push --set-upstream"}
ReconcileCmdNames ==
    DetectCmdNames \cup CommitPushCmdNames \cup {"git branch --show-current"}
NoneIssued(S) == \A i \in DOMAIN cmds : cmds[i].cmd \notin S

----------------------------------------------------------------------------
\* C1: in every run that entered the try block of run() (got past checkout
\* acquisition), cleanup_worktree_if_needed has executed exactly once when the
\* process ends, whichever way it ends; it never executes twice.
C1_TeardownExactlyOnce ==
    /\ teardown_runs <= 1
    /\ (pc = "done" /\ EnteredTry) => teardown_runs = 1
    /\ (pc # "done") => teardown_runs = 0

C1_Witness ==
    /\ pc = "done"
    /\ teardown_runs = 1
    /\ Failed("git commit")

\* C2: when the run has ended, no configuration artifact (.credentials.json,
\* .claude.json) is left in the build context, on any exit path.
C2_ArtifactsReleasedAtExit ==
    pc = "done" => artifacts = {}

\* C3: a failing image build aborts the run before the session: no
\* stop-existing-container step, no container start, no reconciliation;
\* teardown still executes and the exit code is 1.
C3_BuildFailureAborts ==
    Failed("podman build") =>
        /\ pc \in {"teardown", "done"}
        /\ NoneIssued({"podman container exists", "podman stop", "podman rm",
                       "podman run"})
        /\ NoneIssued(ReconcileCmdNames)
        /\ pc = "done" => (teardown_runs = 1 /\ exit_code = 1)

C3_Witness ==
    /\ pc = "done"
    /\ Failed("podman build")
    /\ exit_code = 1

\* C4: a worktree-remove command is issued only if this run created the
\* checkout and cleanup-on-exit is enabled; hence never with --keep-worktree,
\* with an existing checkout path supplied, after a fallback to the current
\* directory, or with the checkout bypassed.
C4_RemovalOnlyIfOwnedAndEnabled ==
    Issued("git worktree remove") =>
        /\ worktree_created
        /\ cleanup_worktree
        /\ ~args.keep_worktree
        /\ ~SuppliedExisting
        /\ ~Failed("git worktree add")
        /\ ~args.no_worktree

C4_Witness ==
    /\ pc = "done"
    /\ Issued("git worktree remove")
    /\ result.committed

\* C5: when this run created the checkout and cleanup is enabled, the working
\* tree it created no longer exists once the run has ended.
C5_CreatedTreeRemoved ==
    (pc = "done" /\ Succeeded("git worktree add") /\ cleanup_worktree)
        => (WtTemp \notin dirs /\ WtTemp \notin worktrees)

\* C6: when this run created the checkout and the session left changes in the
\* checkout the handle names, reconciliation issues add, commit and push in
\* that order, each step only after the previous one succeeded and all of them
\* when none fails; a first push that succeeds gives committed and pushed.
C6_Case ==
    /\ worktree_created
    /\ worktree_path # NoPath
    /\ changes[worktree_path] # {}
    /\ pc \in {"teardown", "done"}

C7_ExistingNeverReconciled ==
    SuppliedExisting => NoneIssued(ReconcileCmdNames)

C7_Witness ==
    /\ pc = "done"
    /\ SuppliedExisting
    /\ worktree_path = ExtPath
    /\ changes[ExtPath] # {}

\* C8: when the worktree-add command fails, created stays false, the run goes
\* on into configuration and the later steps, any container start mounts the
\* current directory (and a run that meets no other failure does start it),
\* no reconciliation command and no worktree-cleanup command is issued.
C8_CreateFailureFallsBack ==
    Failed("git worktree add") =>
        /\ ~worktree_created
        /\ worktree_path = Cwd
        /\ mount_path = Cwd
        /\ EnteredTry
        /\ \A i \in DOMAIN cmds : cmds[i].cmd = "podman run" => cmds[i].arg = Cwd
        /\ (pc = "done" /\ error = "none") => (Issued("podman run") /\ exit_code = 0)
        /\ NoneIssued(ReconcileCmdNames)
        /\ NoneIssued({"git worktree list", "git worktree remove"})

C8_Witness ==
    /\ pc = "done"
    /\ Failed("git worktree add")
    /\ Succeeded("podman run")
    /\ changes[Cwd] # {}
    /\ teardown_runs = 1

\* C9: when reconciliation finds no unstaged diff, no staged diff and no
\* untracked file, it issues no add, commit, branch query or push, the result
\* is committed = false, and the run ends with exit code 0.
C9_Case ==
    /\ Issued("git ls-files --others")
    /\ changes[worktree_path] = {}

C9_EmptyChangeSetNoCommit ==
    C9_Case =>
        /\ Succeeded("git diff --quiet")
        /\ Succeeded("git diff --cached --quiet")
        /\ has_changes = "False"
        /\ NoneIssued(CommitPushCmdNames \cup {"git branch --show-current"})
        /\ ~result.committed /\ ~result.pushed
        /\ error = "none"
        /\ pc = "done" => exit_code = 0

C9_Witness ==
    /\ C9_Case
    /\ pc = "done"
    /\ exit_code = 0

\* C10 as stated: after a successful commit the plain push is attempted exactly
\* once, the upstream-setting push only after a failed plain push and then
\* exactly once.
C10_PushOnceAfterCommit ==
    (pc \in {"teardown", "done"} /\ Succeeded("git commit")) =>
        /\ Count("git push") = 1
        /\ Count("git push --set-upstream") = (IF Failed("git push") THEN 1 ELSE 0)

\* C10 amended: after a successful commit and a successful branch query the
\* plain push is attempted exactly once and the upstream-setting push exactly
\* once if the plain push failed and not at all otherwise; without both no push
\* is attempted; a run makes at most two push attempts, and a fallback that
\* succeeds gives committed and pushed through the fallback path.
C10_PushOnceAfterCommitAndBranch ==
    /\ (pc \in {"teardown", "done"} /\ Succeeded("git commit")
          /\ Succeeded("git branch --show-current")) =>
            /\ Count("git push") = 1
            /\ Count("git push --set-upstream") = (IF Failed("git push") THEN 1 ELSE 0)
    /\ ~(Succeeded("git commit") /\ Succeeded("git branch --show-current")) =>
            NoneIssued({"git push", "git push --set-upstream"})
    /\ Count("git push") + Count("git push --set-upstream") <= 2
    /\ Succeeded("git push --set-upstream") =>
            result = [committed |-> TRUE, pushed |-> TRUE, via |-> "upstream"]

C10_Witness ==
    /\ pc = "done"
    /\ Failed("git push")
    /\ Succeeded("git push --set-upstream")
    /\ exit_code = 0

\* C11: when the plain push and the upstream-setting push both fail, no error
\* leaves reconciliation, the commit made in this run is still in the
\* repository, teardown runs and the process ends with exit code 0.
C11_Case ==
    /\ Failed("git push")
    /\ Failed("git push --set-upstream")

C11_SoftPushFailure ==
    C11_Case =>
        /\ error = "none"
        /\ result.committed /\ ~result.pushed
        /\ local_commits = 1
        /\ pc \in {"teardown", "done"}
        /\ pc = "done" => (teardown_runs = 1 /\ exit_code = 0)

C11_Witness ==
    /\ C11_Case
    /\ pc = "done"
    /\ Succeeded("git worktree remove")
    /\ local_commits = 1
    /\ exit_code = 0

\* C12: with the forced-rebuild flag, every run that has taken the image
\* decision goes to the build step and issues the build with --no-cache,
\* whether or not an image with the tag exists.
C12_ForcedRebuildBuilds ==
    (args.no_cache /\ PastImageDecision) =>
        /\ Visited("build")
        /\ pc # "build" =>
             \E i \in DOMAIN cmds :
                 cmds[i].cmd = "podman build" /\ cmds[i].arg = "--no-cache"

C12_Witness ==
    /\ args.no_cache
    /\ Failed("podman build")
    /\ image_exists
    /\ pc = "done"

\* C13: without the forced flag, a build is triggered when no image with the
\* tag exists and whenever the image exists and the build recipe is present,
\* whatever the image-inspect query returns.
C13_NoStaleImageReuse ==
    (/\ ~args.no_cache
     /\ PastImageDecision
     /\ \/ Failed("podman image exists")
        \/ Succeeded("podman image exists") /\ dockerfile_exists)
        => Visited("build")

\* C14: the stop-existing-container step is complete before the container
\* start is issued; when a container with the name exists at that step, one
\* stop and then one remove are issued for it before the start, and after a
\* remove that succeeded the name is free when the start is issued.
C14_StopBeforeStart ==
    /\ (pc = "run_container" \/ Issued("podman run"))
          => Issued("podman container exists")
    /\ Before("podman container exists", "podman stop")
    /\ Before("podman stop", "podman rm")
    /\ Before("podman rm", "podman run")
    /\ Before("podman container exists", "podman run")
    /\ Succeeded("podman container exists")
          => (Count("podman stop") = 1 /\ Count("podman rm") = 1)
    /\ (pc = "run_container"
          /\ (Failed("podman container exists") \/ Succeeded("podman rm")))
          => ~container_exists

C14_Witness ==
    /\ pc = "done"
    /\ Succeeded("podman container exists")
    /\ Succeeded("podman rm")
    /\ Succeeded("podman run")

\* C15: the stop-existing-container step never raises and never aborts the
\* run, also when stop or remove fail; when no container with the name exists
\* it issues the existence query only and changes nothing else.
C15_StopStepIsNoOp ==
    [][pc = "stop_existing" =>
         /\ pc' = "run_container"
         /\ error' = "none"
         /\ exit_code' = exit_code
         /\ ~container_exists =>
              /\ cmds' = Append(cmds, Cmd("podman container exists", "", FALSE))
              /\ UNCHANGED <<args, worktree_path, worktree_created,
                             cleanup_worktree, mount_path, proc_cwd,
                             has_changes, dockerfile_exists, dirs, worktrees,
                             branches, changes, artifacts, container_exists,
                             image_exists, local_commits, teardown_runs,
                             result>>]_vars

C15_Witness ==
    /\ pc = "run_container"
    /\ Failed("podman container exists")
    /\ ~container_exists
    /\ error = "none"

\* C16: once the container start has been issued, its exit status does not
\* fail the run: the start is issued once, the run goes on to reconciliation
\* and teardown, and unless reconciliation itself raises the process ends with
\* exit code 0, for a zero and for a non-zero exit status of the session.
C16_SessionExitNeverFails ==
    Issued("podman run") =>
        /\ Count("podman run") = 1
        /\ Visited("post_processing")
        /\ pc = "done" => (Visited("teardown") /\ teardown_runs = 1)
        /\ error # "none" =>
             \/ Failed("git add -A")
             \/ Failed("git commit")
             \/ Failed("git branch --show-current")
        /\ (pc = "done" /\ error = "none") => exit_code = 0

C16_Witness ==
    /\ pc = "done"
    /\ Failed("podman run")
    /\ result.committed
    /\ exit_code = 0

\* C17: every run passes the phases in the order acquire, image (configuration,
\* decision, build, temp-file cleanup), session (stop existing, start),
\* reconcile, teardown, done; each step is followed by the next one or, on
\* failure, by teardown; no phase is entered twice.
PhaseRank(l) ==
    CASE l = "setup"           -> 0
      [] l = "acquire"         -> 1
      [] l = "prepare_config"  -> 2
      [] l = "should_build"    -> 3
      [] l = "build"           -> 4
      [] l = "cleanup_temp"    -> 5
      [] l = "stop_existing"   -> 6
      [] l = "run_container"   -> 7
      [] l = "post_processing" -> 8
      [] l = "teardown"        -> 9
      [] l = "done"            -> 10

C17_PhaseOrder ==
    /\ \A i, j \in DOMAIN visited :
          i < j => PhaseRank(visited[i]) < PhaseRank(visited[j])
    /\ \A i \in DOMAIN visited :
          i < Len(visited) =>
             \/ PhaseRank(visited[i + 1]) = PhaseRank(visited[i]) + 1
             \/ visited[i] = "should_build" /\ visited[i + 1] = "cleanup_temp"
             \/ visited[i + 1] = "teardown"

\* C18: when no existing checkout is supplied, the checkout is not bypassed
\* and the current directory is not under version control, the run ends with
\* exit code 1 with no worktree created, no configuration artifact written, no
\* image built and no container started, and teardown has run.
C18_NotVersionControlledFails ==
    Failed("git rev-parse") =>
        /\ pc = "done"
        /\ exit_code = 1
        /\ NoneIssued({"git worktree add", "podman build", "podman run"})
        /\ artifacts = {}
        /\ teardown_runs = 1

\* C19: when a required configuration source is absent the run ends with exit
\* code 1 without image build and without container start, teardown runs, and
\* a checkout this run created is removed (cleanup enabled).
C19_MissingConfigAborts ==
    error = "SystemExit" =>
        /\ pc \in {"teardown", "done"}
        /\ NoneIssued({"podman build", "podman run"})
        /\ pc = "done" =>
             /\ exit_code = 1
             /\ teardown_runs = 1
             /\ (Succeeded("git worktree add") /\ cleanup_worktree)
                   => (WtTemp \notin dirs /\ WtTemp \notin worktrees)

\* C20: when the commit command fails, it is not retried, no branch query and
\* no push is issued afterwards, the failure leaves reconciliation as an
\* error (exit code 1), and teardown still runs.
C20_CommitFailureIsFatal ==
    Failed("git commit") =>
        /\ Count("git commit") = 1
        /\ NoneIssued({"git branch --show-current", "git push",
                       "git push --set-upstream"})
        /\ error = "CalledProcessError"
        /\ ~result.committed /\ local_commits = 0
        /\ pc \in {"teardown", "done"}
        /\ pc = "done" => (teardown_runs = 1 /\ exit_code = 1)

C20_Witness ==
    /\ pc = "done"
    /\ Succeeded("git add -A")
    /\ Failed("git commit")
    /\ exit_code = 1

----------------------------------------------------------------------------
(* Vocabulary for the words of a command *)

\* git seeds a new working tree from the commit-ish that follows the target
\* directory, and from HEAD when there is none
StartPoint(x) == IF Len(x) >= 3 THEN x[3] ELSE "HEAD"

\* the permission settings on a claude command line
PermissionSettings(x) ==
    {<<x[k], x[k + 1]>> : k \in {j \in 1..(Len(x) - 1) : x[j] = "--permission-mode"}}
      \cup {<<x[k]>> : k \in {j \in DOMAIN x : x[j] = "--dangerously-skip-permissions"}}

\* the command line runs claude once with the given prompt
RunsPrompt(x, message) ==
    /\ Len(x) >= 3
    /\ SubSeq(x, 1, 3) = <<"bash", "-c", "claude">>
    /\ \E k \in 1..(Len(x) - 1) : x[k] = "-p" /\ x[k + 1] = message

GitCmdNames ==
    ReconcileCmdNames
      \cup {"git rev-parse", "git worktree add", "git worktree list",
            "git worktree remove"}

\* C21: when the worktree-add command succeeds, the path the handle records
\* is the directory the working tree was created at, the same path is the
\* mount path, and the container start is never reached with a mount path
\* that does not exist.
C21_HandleIsCreatedTree ==
    /\ \A i \in DOMAIN cmds :
         (cmds[i].cmd = "git worktree add" /\ cmds[i].ok)
            => (worktree_path = cmds[i].arg /\ mount_path = cmds[i].arg)
    /\ pc = "run_container" => Exists(mount_path)

\* C22: the worktree-add command is issued with the requested source ref as
\* its start point: the value of --worktree-branch when given, the current
\* head otherwise.
C22_SeededFromSourceRef ==
    \A i \in DOMAIN cmds :
        cmds[i].cmd = "git worktree add"
           => StartPoint(cmds[i].extra) = RequestedRef(args.worktree_branch)

C24_ArtifactsOnlyForBuild ==
    /\ pc = "build" => artifacts = {CredentialsFile, ClaudeJson}
    /\ Visited("stop_existing") => artifacts = {}
    /\ Issued("podman run") => artifacts = {}

C24_Witness ==
    /\ pc = "done"
    /\ Succeeded("podman run")
    /\ ~Issued("podman build")
    /\ artifacts = {}

C26_CreatedAtMostOnce ==
    /\ Count("git worktree add") <= 1
    /\ Count("podman build") <= 1
    /\ Count("podman run") <= 1

C26_Witness ==
    /\ pc = "done"
    /\ Count("git worktree add") = 1
    /\ Count("podman build") = 1
    /\ Count("podman run") = 1
    /\ Failed("git commit")

\* C27: whenever the forced worktree removal is issued for a checkout in which
\* the session left changes, those changes have been committed.
C27_NoUncommittedRemoval ==
    \A i \in DOMAIN cmds :
        (cmds[i].cmd = "git worktree remove" /\ changes[cmds[i].arg] # {})
           => result.committed

C29_BypassIssuesNoGit ==
    args.no_worktree =>
        /\ NoneIssued(GitCmdNames)
        /\ worktree_path = NoPath
        /\ mount_path = Cwd
        /\ \A i \in DOMAIN cmds : cmds[i].cmd = "podman run" => cmds[i].arg = Cwd
        /\ pc \notin {"setup", "acquire"} => EnteredTry

C29_Witness ==
    /\ pc = "done"
    /\ args.no_worktree
    /\ SuppliedExisting
    /\ Succeeded("podman run")
    /\ changes[Cwd] # {}

\* C30: after a run that created its checkout and ended with cleanup enabled,
\* the directory and the branch name the creation took are free again, so the
\* same worktree-add command can succeed in the next run.
C30_Repeatable ==
    (pc = "done" /\ teardown_runs = 1 /\ Succeeded("git worktree add")
       /\ cleanup_worktree)
        => CanAddWorktree

====
